---- MODULE Spec2Model ----
(***************************************************************************)
(* A state-machine model of bestbuy_5090_checker.py: the module-level      *)
(* start-up code, the launcher, monitor mode and the interactive test      *)
(* mode, with the collaborators (HTTP fetch, Twilio, the file system, the  *)
(* clock, standard input) as nondeterministic choices.                     *)
(*                                                                         *)
(* Python None is the string "None" where a status is expected and the     *)
(* one-element sequence <<"None">> where a string (a sequence of           *)
(* characters) is expected.  An uncaught exception ends the process:       *)
(* pc = "crashed", and exc says which exception and in which function.     *)
(***************************************************************************)
EXTENDS Integers, Sequences, FiniteSets, TLC

VARIABLES
    pc,                 \* position of the single thread of control
    mode,               \* "none", "monitor" or "interactive"
    CHECK_URL,          \* os.getenv("CHECK_URL")
    SKU,                \* module global SKU
    ADD_TO_CART_MARKER, \* module global built from SKU
    warned,             \* the SKU warning line was printed at start-up
    last_status,        \* local of monitor_mode / test_interactive_mode
    current_status,     \* the status handed to handle_status_change
    response,           \* what the latest requests.get produced
    saved_files_queue,  \* deque of snapshot file names
    files,              \* snapshot files that exist in the current directory
    removed,            \* file names os.remove was called on (snapshots)
    clock,              \* the latest reading of datetime.now(); each reading is later
    state_changes,      \* the file state_changes.json
    log,                \* lines appended to the daily log file, by kind
    calls,              \* number of twilio_client.calls.create invocations
    call_result,        \* outcome of calls.create in the latest handle_status_change
    history,            \* one record per handle_status_change call that returned
    wait_time_seconds,  \* local of monitor_mode
    now_pt,             \* local of get_current_wait_time_seconds
    nfetch,             \* number of requests.get invocations
    nsleep,             \* number of time.sleep calls that returned
    slept,              \* duration of the latest time.sleep
    exc,                \* the uncaught exception, if any
    stale_logs,         \* log files older than 30 days in logs/
    user_input          \* local of test_interactive_mode

vars == <<pc, mode, CHECK_URL, SKU, ADD_TO_CART_MARKER, warned, last_status,
          current_status, response, saved_files_queue, files, removed, clock,
          state_changes, log, calls, call_result, history, wait_time_seconds,
          now_pt, nfetch, nsleep, slept, exc, stale_logs, user_input>>

-----------------------------------------------------------------------------
(* Bounds of the model *)

\* poll cycles and interactive commands per run under Spec
MaxPolls == 2
\* forced-status commands per run under SpecForced
MaxForced == 5
\* poll cycles per run under SpecWait
MaxWaitPolls == 1
\* snapshot-saving fetches beyond MAX_SAVED_RESPONSES under SpecRotation
ExtraFetches == 2

(* Program constants *)

MAX_SAVED_RESPONSES == 10

-----------------------------------------------------------------------------
(* Values *)

None == <<"None">>

Digits == {"0", "1", "2", "3", "4", "5", "6", "7", "8", "9"}

Statuses == {"sold_out", "in_stock", "fail"}

NoExc == [type |-> "none", in |-> "none", during |-> "none"]

NoResponse == [kind |-> "none", text |-> <<>>]

\* "p?skuId=61&r", "p?x=1", "skuId=&skuId=7" and the unset variable
Urls ==
    { <<"p", "?", "s", "k", "u", "I", "d", "=", "6", "1", "&", "r">>,
      <<"p", "?", "x", "=", "1">>,
      <<"s", "k", "u", "I", "d", "=", "&", "s", "k", "u", "I", "d", "=", "7">>,
      None }

FALLBACK_SKU == <<"0", "0", "0", "0", "0", "0", "0">>

-----------------------------------------------------------------------------
(* extract_sku: re.search(r"skuId=(\d+)", url) *)

SkuIdPrefix == <<"s", "k", "u", "I", "d", "=">>

\* the regular expression matches at position i of url
MatchesAt(url, i) ==
    /\ i + Len(SkuIdPrefix) <= Len(url)
    /\ SubSeq(url, i, i + Len(SkuIdPrefix) - 1) = SkuIdPrefix
    /\ url[i + Len(SkuIdPrefix)] \in Digits

\* the longest run of digits of url that starts at position i (\d+ is greedy)
RECURSIVE DigitRun(_, _)
DigitRun(url, i) ==
    IF i <= Len(url) /\ url[i] \in Digits
    THEN <<url[i]>> \o DigitRun(url, i + 1)
    ELSE <<>>

extract_sku(url) ==
    LET hits == {i \in 1..Len(url) : MatchesAt(url, i)} IN
    IF hits = {}
    THEN None
    ELSE LET first == CHOOSE i \in hits : \A j \in hits : i <= j
         IN DigitRun(url, first + Len(SkuIdPrefix))

\* f'data-sku-id="{SKU}" data-button-state="ADD_TO_CART"'
Marker(sku) == [kind |-> "ADD_TO_CART", sku |-> sku]

\* SOLD_OUT_TEXT
SOLD_OUT_TEXT == [kind |-> "SOLD_OUT_TEXT", sku |-> <<>>]

-----------------------------------------------------------------------------
(* Page text: a sequence of fragments; "marker in page_text" is containment *)

\* the bodies the server may send: no marker, either marker, both markers in
\* either order, and the add-to-cart button of another product
Pages ==
    { <<>>,
      <<[kind |-> "other", sku |-> <<>>]>>,
      <<SOLD_OUT_TEXT>>,
      <<[kind |-> "other", sku |-> <<>>], Marker(<<"6", "1">>)>>,
      <<Marker(<<"7">>)>>,
      <<SOLD_OUT_TEXT, Marker(<<"6", "1">>)>>,
      <<Marker(<<"6", "1">>), SOLD_OUT_TEXT>>,
      <<Marker(<<"7">>), [kind |-> "other", sku |-> <<>>], SOLD_OUT_TEXT>>,
      <<Marker(<<"7">>), Marker(<<"6", "1">>)>> }

Contains(marker, page_text) == \E i \in 1..Len(page_text) : page_text[i] = marker

\* a classifier that tests the add-to-cart marker before the sold-out text
ClassifyInStockFirst(page_text, marker) ==
    IF Contains(marker, page_text) THEN "in_stock"
    ELSE IF Contains(SOLD_OUT_TEXT, page_text) THEN "sold_out"
    ELSE "fail"

\* the if/elif/else of check_status over the page text
Classify(page_text, marker) ==
    IF Contains(SOLD_OUT_TEXT, page_text) THEN "sold_out"
    ELSE IF Contains(marker, page_text) THEN "in_stock"
    ELSE "fail"

-----------------------------------------------------------------------------
(* Standard input: str.strip() and str.lower() on sequences of characters *)

Whitespace == {" "}

RECURSIVE LStrip(_)
LStrip(s) == IF s # <<>> /\ Head(s) \in Whitespace THEN LStrip(Tail(s)) ELSE s

RECURSIVE RStrip(_)
RStrip(s) ==
    IF s # <<>> /\ s[Len(s)] \in Whitespace
    THEN RStrip(SubSeq(s, 1, Len(s) - 1))
    ELSE s

Strip(s) == RStrip(LStrip(s))

LowerChar(c) ==
    CASE c = "S" -> "s"
      [] c = "I" -> "i"
      [] c = "F" -> "f"
      [] c = "Q" -> "q"
      [] c = "X" -> "x"
      [] OTHER -> c

Lower(s) == [i \in 1..Len(s) |-> LowerChar(s[i])]

\* what the user may type at "Your choice (s/i/f/Enter/q): "
RawInputs ==
    { <<>>, <<" ", " ">>,
      <<"s">>, <<" ", "S">>,
      <<"i">>, <<"I", " ">>,
      <<"f">>, <<"F">>,
      <<"q">>, <<" ", "Q", " ">>,
      <<"x">>, <<"s", "i">>, <<"s", " ", "i">>, <<"X">> }

\* what the user may type at "Enter 1 or 2: "
RawChoices == { <<"1">>, <<" ", "2", " ">>, <<"2">>, <<"3">>, <<>>, <<"1", "2">> }

\* a prompt whose f command forces sold_out
ForcedStatusNoFail(input) ==
    CASE input = <<"s">> -> "sold_out"
      [] input = <<"i">> -> "in_stock"
      [] input = <<"f">> -> "sold_out"

\* the dict literal of test_interactive_mode
ForcedStatus(input) ==
    CASE input = <<"s">> -> "sold_out"
      [] input = <<"i">> -> "in_stock"
      [] input = <<"f">> -> "fail"

-----------------------------------------------------------------------------
(* The clock: datetime.now(ZoneInfo("America/Los_Angeles")) *)

\* an instant as the UTC weekday (Monday = 0) and hour, and whether
\* daylight saving time is in force in Los Angeles at that instant
Readings == [weekday : 0..6, hour : 0..23, dst : BOOLEAN]

ToPacific(r) ==
    LET offset == IF r.dst THEN 7 ELSE 8
        h == r.hour - offset
    IN IF h >= 0
       THEN [weekday |-> r.weekday, hour |-> h]
       ELSE [weekday |-> (r.weekday + 6) % 7, hour |-> h + 24]

NoTime == [weekday |-> 0 - 1, hour |-> 0 - 1]

\* a schedule whose window also takes in the hour 14
WaitTimeInclusive(now) ==
    IF now.weekday < 5 /\ 6 <= now.hour /\ now.hour <= 14 THEN 60 ELSE 600

get_current_wait_time_seconds(now) ==
    IF now.weekday < 5 /\ 6 <= now.hour /\ now.hour < 14 THEN 60 ELSE 600

\* instants around the edges of the fast-polling window
SampleReadings ==
    { r \in Readings :
        /\ r.weekday \in {0, 4, 5}
        /\ r.hour \in {3, 13, 21} }

-----------------------------------------------------------------------------
(* collections.deque(maxlen=n).append(x) *)

DequeAppend(q, x, maxlen) ==
    IF Len(q) >= maxlen /\ maxlen > 0
    THEN Append(Tail(q), x)
    ELSE IF maxlen = 0 THEN q ELSE Append(q, x)

-----------------------------------------------------------------------------
(* The initial state: the interpreter is about to run the module *)

\* state_changes.json as an earlier run may have left it: absent, a JSON
\* array of events, or text json.load cannot parse
InitialStateFiles ==
    { [exists |-> FALSE, valid |-> FALSE, events |-> <<>>],
      [exists |-> TRUE, valid |-> TRUE,
       events |-> << [timestamp |-> 0, old_status |-> "None", new_status |-> "sold_out"] >>],
      [exists |-> TRUE, valid |-> FALSE, events |-> <<>>] }

Init ==
    /\ pc = "import"
    /\ mode = "none"
    /\ CHECK_URL \in Urls
    /\ SKU = None
    /\ ADD_TO_CART_MARKER = Marker(None)
    /\ warned = FALSE
    /\ last_status = "None"
    /\ current_status = "None"
    /\ response = NoResponse
    /\ saved_files_queue = <<>>
    /\ files = {}
    /\ removed = {}
    /\ clock = 0
    /\ state_changes \in InitialStateFiles
    /\ log = <<>>
    /\ calls = 0
    /\ call_result = "none"
    /\ history = <<>>
    /\ wait_time_seconds = 0
    /\ now_pt = NoTime
    /\ nfetch = 0
    /\ nsleep = 0
    /\ slept = 0
    /\ exc = NoExc
    /\ stale_logs \in 0..1
    /\ user_input = None

\* an exception of the given type raised in function fn and caught nowhere,
\* while the program was running the step named by during
Uncaught(type, fn, during) == [type |-> type, in |-> fn, during |-> during]

-----------------------------------------------------------------------------
(* Lines 15-149: the module-level code *)

ImportModule ==
    /\ pc = "import"
    /\ \E logOk \in BOOLEAN :
        LET typeError == CHECK_URL = None   \* re.search(pattern, None)
            sku == IF typeError THEN None ELSE extract_sku(CHECK_URL)
            missing == ~typeError /\ sku = None
            done == ~typeError /\ (missing => logOk)
        IN  /\ warned' = missing
            /\ log' = IF missing /\ logOk THEN Append(log, "sku_warning") ELSE log
            /\ SKU' = IF ~done THEN sku ELSE IF missing THEN FALLBACK_SKU ELSE sku
            /\ ADD_TO_CART_MARKER' = IF done THEN Marker(SKU') ELSE ADD_TO_CART_MARKER
            /\ pc' = IF done THEN "main" ELSE "crashed"
            /\ exc' = IF done THEN exc
                      ELSE IF typeError THEN Uncaught("TypeError", "extract_sku", "import")
                      ELSE Uncaught("OSError", "log_message", "import")
    /\ UNCHANGED <<mode, CHECK_URL, last_status, current_status, response,
                   saved_files_queue, files, removed, clock, state_changes, calls,
                   call_result, history, wait_time_seconds, now_pt, nfetch, nsleep,
                   slept, stale_logs, user_input>>

-----------------------------------------------------------------------------
(* Lines 290-301: the launcher *)

MenuLines == <<"select_mode", "menu_1", "menu_2">>

Main ==
    /\ pc = "main"
    /\ \E raw \in RawChoices, k \in 0..Len(MenuLines), logOk \in BOOLEAN :
        LET mode_choice == Strip(raw)
            menuOk == k = Len(MenuLines)
            valid == mode_choice \in {<<"1">>, <<"2">>}
            done == menuOk /\ (~valid => logOk)
        IN  /\ log' = log \o SubSeq(MenuLines, 1, k) \o
                      (IF menuOk /\ ~valid /\ logOk THEN <<"invalid_selection">> ELSE <<>>)
            /\ pc' = IF ~done THEN "crashed"
                     ELSE IF mode_choice = <<"1">> THEN "monitor_mode"
                     ELSE IF mode_choice = <<"2">> THEN "test_interactive_mode"
                     ELSE "exit"
            /\ exc' = IF done THEN exc ELSE Uncaught("OSError", "log_message", "main")
    /\ UNCHANGED <<mode, CHECK_URL, SKU, ADD_TO_CART_MARKER, warned, last_status,
                   current_status, response, saved_files_queue, files, removed, clock,
                   state_changes, calls, call_result, history, wait_time_seconds,
                   now_pt, nfetch, nsleep, slept, stale_logs, user_input>>

-----------------------------------------------------------------------------
(* Lines 78-93: cleanup_old_logs, then the lines each mode logs on entry *)

\* cleanup_old_logs followed by the entry lines of a mode: the stale log
\* file is removed (os.remove may raise OSError, which only a ValueError
\* handler surrounds) and the removal is logged
EnterMode(name, entryLines, firstPc) ==
    \E rmOk \in BOOLEAN, k \in 0..(Len(entryLines) + 1) :
        LET stale == stale_logs > 0
            removedOk == stale /\ rmOk
            lines == (IF removedOk THEN <<"removed_old_log">> ELSE <<>>) \o entryLines
            wanted == IF stale /\ ~rmOk THEN 0 ELSE Len(lines)
            written == IF k < wanted THEN k ELSE wanted
            done == (stale => rmOk) /\ written = Len(lines)
            inCleanup == (stale /\ ~rmOk) \/ (removedOk /\ written = 0)
        IN  /\ stale_logs' = IF removedOk THEN stale_logs - 1 ELSE stale_logs
            /\ log' = log \o SubSeq(lines, 1, written)
            /\ mode' = name
            /\ last_status' = "None"
            /\ saved_files_queue' = <<>>
            /\ pc' = IF done THEN firstPc ELSE "crashed"
            /\ exc' = IF done THEN exc
                      ELSE IF stale /\ ~rmOk
                           THEN Uncaught("OSError", "cleanup_old_logs", name)
                      ELSE Uncaught("OSError", "log_message",
                                    IF inCleanup THEN "cleanup_old_logs" ELSE name)

StartMonitor ==
    /\ pc = "monitor_mode"
    /\ EnterMode("monitor", <<"starting_monitor">>, "m_check")
    /\ UNCHANGED <<CHECK_URL, SKU, ADD_TO_CART_MARKER, warned, current_status, response,
                   files, removed, clock, state_changes, calls, call_result, history,
                   wait_time_seconds, now_pt, nfetch, nsleep, slept, user_input>>

StartInteractive ==
    /\ pc = "test_interactive_mode"
    /\ EnterMode("interactive", <<"entering_test_mode", "options">>, "i_input")
    /\ UNCHANGED <<CHECK_URL, SKU, ADD_TO_CART_MARKER, warned, current_status, response,
                   files, removed, clock, state_changes, calls, call_result, history,
                   wait_time_seconds, now_pt, nfetch, nsleep, slept, user_input>>

-----------------------------------------------------------------------------
(* Lines 154-191: check_status *)

\* monitor_mode calls check_status(save_html=False); test_interactive_mode
\* calls check_status(save_html=True, saved_files_queue=saved_files_queue)
SaveHtml == mode = "interactive"

\* f"bestbuy_{timestamp}_{current_status}.html"
Filename(timestamp, status) == <<timestamp, status>>

\* limit bounds the polls of a run; pages are the bodies the server may
\* send;
\* fetches says whether requests.get may return (TRUE) or raise (FALSE);
\* writes are the ways writing the snapshot may go: open() may raise, or
\* f.write may raise after open() has created the file
check_status(limit, pages, fetches, writes) ==
    /\ pc \in {"m_check", "i_check"}
    /\ pc = "m_check" => Len(history) < limit
    /\ \E fetchOk \in fetches, page_text \in pages, wr \in writes,
          rmOk \in BOOLEAN, logOk \in BOOLEAN :
        LET status == Classify(page_text, ADD_TO_CART_MARKER)
            saving == fetchOk /\ SaveHtml
            filename == Filename(clock + 1, status)
            saved == saving /\ wr = "ok"
            \* the queue was made by deque(maxlen=MAX_SAVED_RESPONSES)
            appended == DequeAppend(saved_files_queue, filename, MAX_SAVED_RESPONSES)
            over == saved /\ Len(appended) > MAX_SAVED_RESPONSES
            oldest_file == Head(appended)
            raised == ~fetchOk \/ (saving /\ wr # "ok")
            returned == raised => logOk
        IN  /\ nfetch' = nfetch + 1
            /\ response' = IF fetchOk THEN [kind |-> "ok", text |-> page_text]
                           ELSE [kind |-> "error", text |-> <<>>]
            /\ clock' = IF saving THEN clock + 1 ELSE clock
            /\ files' = IF saving /\ wr \in {"ok", "write_fails"}
                        THEN (files \cup {filename})
                             \ (IF over /\ rmOk THEN {oldest_file} ELSE {})
                        ELSE files
            /\ saved_files_queue' = IF ~saved THEN saved_files_queue
                                    ELSE IF over THEN Tail(appended)
                                    ELSE appended
            /\ removed' = IF over THEN removed \cup {oldest_file} ELSE removed
            /\ log' = IF raised /\ logOk THEN Append(log, "error_fetching") ELSE log
            /\ current_status' = IF ~returned THEN current_status
                                 ELSE IF raised THEN "fail"
                                 ELSE status
            /\ pc' = IF ~returned THEN "crashed"
                     ELSE IF pc = "m_check" THEN "m_handle"
                     ELSE "i_handle"
            /\ exc' = IF returned THEN exc
                      ELSE Uncaught("OSError", "log_message", "check_status")
    /\ UNCHANGED <<mode, CHECK_URL, SKU, ADD_TO_CART_MARKER, warned, last_status,
                   state_changes, calls, call_result, history, wait_time_seconds,
                   now_pt, nsleep, slept, stale_logs, user_input>>

-----------------------------------------------------------------------------
(* Lines 95-115, 196-208, 213-233: handle_status_change and what it calls *)

\* a tracker that also treats every in_stock poll as a change
StatusChangedOrInStock(current, last) == current # last \/ current = "in_stock"

\* a tracker that takes every poll for a change
StatusChangedAlways(current, last) == TRUE

\* line 219
StatusChanged(current, last) == current # last

\* a tracker that places a call on every change of status
ChangeActionAlwaysCall(current) == "call"

\* lines 223-228: what a changed status leads to
ChangeAction(current) ==
    IF current = "in_stock" THEN "call"
    ELSE IF current = "sold_out" THEN "log_sold_out"
    ELSE "log_anomaly"

\* a tracker that never moves off the status it started with
NewLastStatusKept(current, last) == last

\* a tracker that does not take fail for a status to remember
NewLastStatusUnlessFail(current, last) ==
    IF current # last /\ current # "fail" THEN current ELSE last

\* lines 230 and 233: the value handle_status_change returns
NewLastStatus(current, last) ==
    IF StatusChanged(current, last) THEN current ELSE last

\* lines 99-105: the list log_state_change starts from
LoadedEvents(readOk) ==
    IF state_changes.exists /\ state_changes.valid /\ readOk
    THEN state_changes.events
    ELSE <<>>

\* lines 107-115: state_changes.json after log_state_change, by how the
\* write goes: open() may raise before the file is touched, json.dump may
\* raise after open() has truncated it
WrittenStateFile(data, event, wr) ==
    CASE wr = "ok" -> [exists |-> TRUE, valid |-> TRUE, events |-> Append(data, event)]
      [] wr = "open_fails" -> state_changes
      [] wr = "dump_fails" -> [exists |-> TRUE, valid |-> FALSE, events |-> <<>>]

handle_status_change ==
    /\ pc \in {"m_handle", "i_handle"}
    /\ \E readOk \in BOOLEAN, wr \in {"ok", "open_fails", "dump_fails"},
          callOk \in BOOLEAN, logOk \in BOOLEAN :
        LET changed == StatusChanged(current_status, last_status)
            event == [timestamp |-> clock + 1, old_status |-> last_status,
                      new_status |-> current_status]
            recorded == changed /\ wr = "ok"
            action == IF changed THEN ChangeAction(current_status) ELSE "no_change"
            calling == recorded /\ action = "call"
            line == CASE action = "call" ->
                           (IF callOk THEN "call_placed" ELSE "error_placing_call")
                      [] action = "log_sold_out" -> "sold_out_update"
                      [] action = "log_anomaly" -> "page_failed_alert"
                      [] action = "no_change" -> "no_change"
            atLog == changed => recorded
            returned == atLog /\ logOk
        IN  /\ clock' = IF changed THEN clock + 1 ELSE clock
            /\ state_changes' = IF changed
                                THEN WrittenStateFile(LoadedEvents(readOk), event, wr)
                                ELSE state_changes
            /\ calls' = IF calling THEN calls + 1 ELSE calls
            /\ call_result' = IF ~calling THEN "none"
                              ELSE IF callOk THEN "placed"
                              ELSE "error"
            /\ log' = IF returned THEN Append(log, line) ELSE log
            /\ last_status' = IF returned
                              THEN NewLastStatus(current_status, last_status)
                              ELSE last_status
            /\ history' = IF returned
                          THEN Append(history, [current |-> current_status,
                                                last |-> last_status,
                                                action |-> action,
                                                fetched |-> response.kind # "none"])
                          ELSE history
            /\ response' = IF returned THEN NoResponse ELSE response
            /\ pc' = IF ~returned THEN "crashed"
                     ELSE IF pc = "m_handle" THEN "m_wait"
                     ELSE "i_input"
            /\ exc' = IF returned THEN exc
                      ELSE IF ~atLog
                           THEN Uncaught("OSError", "log_state_change", "handle_status_change")
                      ELSE Uncaught("OSError", "log_message", "handle_status_change")
    /\ UNCHANGED <<mode, CHECK_URL, SKU, ADD_TO_CART_MARKER, warned, current_status,
                   saved_files_queue, files, removed, wait_time_seconds, now_pt,
                   nfetch, nsleep, slept, stale_logs, user_input>>

-----------------------------------------------------------------------------
(* Lines 247-253: the rest of a monitor_mode cycle *)

\* a loop that asks the schedule in its first cycle only and sleeps that
\* value in every later cycle
compute_wait_once(readings) ==
    /\ pc = "m_wait"
    /\ \E r \in readings, logOk \in BOOLEAN :
        /\ now_pt' = ToPacific(r)
        /\ wait_time_seconds' = IF nsleep = 0
                                THEN get_current_wait_time_seconds(now_pt')
                                ELSE wait_time_seconds
        /\ log' = IF logOk THEN Append(log, "next_check") ELSE log
        /\ pc' = IF logOk THEN "m_sleep" ELSE "crashed"
        /\ exc' = IF logOk THEN exc ELSE Uncaught("OSError", "log_message", "monitor")
    /\ UNCHANGED <<mode, CHECK_URL, SKU, ADD_TO_CART_MARKER, warned, last_status,
                   current_status, response, saved_files_queue, files, removed, clock,
                   state_changes, calls, call_result, history, nfetch, nsleep, slept,
                   stale_logs, user_input>>

\* lines 251-252: readings are the instants the clock may show
compute_wait(readings) ==
    /\ pc = "m_wait"
    /\ \E r \in readings, logOk \in BOOLEAN :
        /\ now_pt' = ToPacific(r)
        /\ wait_time_seconds' = get_current_wait_time_seconds(now_pt')
        /\ log' = IF logOk THEN Append(log, "next_check") ELSE log
        /\ pc' = IF logOk THEN "m_sleep" ELSE "crashed"
        /\ exc' = IF logOk THEN exc ELSE Uncaught("OSError", "log_message", "monitor")
    /\ UNCHANGED <<mode, CHECK_URL, SKU, ADD_TO_CART_MARKER, warned, last_status,
                   current_status, response, saved_files_queue, files, removed, clock,
                   state_changes, calls, call_result, history, nfetch, nsleep, slept,
                   stale_logs, user_input>>

\* a loop that polls again at once after a poll that gave fail
SleepUnlessFailed ==
    /\ pc = "m_sleep"
    /\ nsleep' = IF current_status = "fail" THEN nsleep ELSE nsleep + 1
    /\ slept' = IF current_status = "fail" THEN slept ELSE wait_time_seconds
    /\ now_pt' = NoTime
    /\ pc' = "m_check"
    /\ UNCHANGED <<mode, CHECK_URL, SKU, ADD_TO_CART_MARKER, warned, last_status,
                   current_status, response, saved_files_queue, files, removed, clock,
                   state_changes, log, calls, call_result, history, wait_time_seconds,
                   nfetch, exc, stale_logs, user_input>>

\* line 253
Sleep ==
    /\ pc = "m_sleep"
    /\ nsleep' = nsleep + 1
    /\ slept' = wait_time_seconds
    /\ now_pt' = NoTime
    /\ pc' = "m_check"
    /\ UNCHANGED <<mode, CHECK_URL, SKU, ADD_TO_CART_MARKER, warned, last_status,
                   current_status, response, saved_files_queue, files, removed, clock,
                   state_changes, log, calls, call_result, history, wait_time_seconds,
                   nfetch, exc, stale_logs, user_input>>

-----------------------------------------------------------------------------
(* Lines 269-285: one prompt of test_interactive_mode *)

Rejected == Cardinality({i \in 1..Len(log) : log[i] = "unrecognized_input"})

\* lines 271-285: where the if/elif chain sends an input: out of the loop,
\* to handle_status_change with a forced status, to check_status, or back to
\* the prompt
Dispatch(input) ==
    IF input = <<"q">> THEN "exit"
    ELSE IF input \in {<<"s">>, <<"i">>, <<"f">>} THEN "i_handle"
    ELSE IF input = <<>> THEN "i_check"
    ELSE "i_input"

\* limit bounds the polls of a run; inputs are the lines the user may type
read_input(limit, inputs) ==
    /\ pc = "i_input"
    /\ \E raw \in inputs, logOk \in BOOLEAN :
        LET input == Lower(Strip(raw))
            target == Dispatch(input)
            quit == target = "exit"
            forced == target = "i_handle"
            logs == target \in {"exit", "i_input"}
            done == logs => logOk
        IN  /\ ~quit => Len(history) + Rejected < limit
            /\ user_input' = input
            /\ log' = IF logs /\ logOk
                      THEN Append(log, IF quit THEN "exiting_test_mode"
                                       ELSE "unrecognized_input")
                      ELSE log
            /\ current_status' = IF forced THEN ForcedStatus(input)
                                 ELSE current_status
            /\ pc' = IF done THEN target ELSE "crashed"
            /\ exc' = IF done THEN exc
                      ELSE Uncaught("OSError", "log_message", "interactive")
    /\ UNCHANGED <<mode, CHECK_URL, SKU, ADD_TO_CART_MARKER, warned, last_status,
                   response, saved_files_queue, files, removed, clock, state_changes,
                   calls, call_result, history, wait_time_seconds, now_pt, nfetch,
                   nsleep, slept, stale_logs>>

-----------------------------------------------------------------------------
(* The program under every input and every collaborator outcome *)

WriteOutcomes == {"ok", "open_fails", "write_fails"}

CheckStatus == check_status(MaxPolls, Pages, BOOLEAN, WriteOutcomes)

ComputeWait == compute_wait(SampleReadings)

ReadInput == read_input(MaxPolls, RawInputs)

Next ==
    \/ ImportModule
    \/ Main
    \/ StartMonitor
    \/ StartInteractive
    \/ CheckStatus
    \/ handle_status_change
    \/ ComputeWait
    \/ Sleep
    \/ ReadInput

Spec == Init /\ [][Next]_vars

-----------------------------------------------------------------------------
(* The interactive mode driven by forced statuses and quit alone *)

ForcedInputs == { <<"s">>, <<" ", "S">>, <<"i">>, <<"I", " ">>, <<"f">>, <<"F">>, <<"q">> }

ReadForced == read_input(MaxForced, ForcedInputs)

NextForced ==
    \/ ImportModule
    \/ Main
    \/ StartInteractive
    \/ ReadForced
    \/ handle_status_change

SpecForced == Init /\ [][NextForced]_vars

-----------------------------------------------------------------------------
(* The monitor mode with the clock at any hour of any day *)

CheckStatusFew == check_status(MaxWaitPolls, Pages, BOOLEAN, WriteOutcomes)

ComputeWaitAny == compute_wait(Readings)

NextWait ==
    \/ ImportModule
    \/ Main
    \/ StartMonitor
    \/ CheckStatusFew
    \/ handle_status_change
    \/ ComputeWaitAny
    \/ Sleep

SpecWait == Init /\ [][NextWait]_vars

-----------------------------------------------------------------------------
(* The interactive mode driven by fetch commands that all succeed: the    *)
(* server sends the sold-out page and every snapshot is written           *)

MaxFetches == MAX_SAVED_RESPONSES + ExtraFetches

ReadFetch == read_input(MaxFetches, { <<>>, <<"q">> })

CheckStatusSaved == check_status(MaxFetches, {<<SOLD_OUT_TEXT>>}, {TRUE}, {"ok"})

NextRotation ==
    \/ ImportModule
    \/ Main
    \/ StartInteractive
    \/ ReadFetch
    \/ CheckStatusSaved
    \/ handle_status_change

SpecRotation == Init /\ [][NextRotation]_vars

-----------------------------------------------------------------------------
(* Properties *)

\* the statuses fed through handle_status_change so far, in order
Fed == [i \in 1..Len(history) |-> history[i].current]

\* the polls at which handle_status_change chose to place a call
CallPolls == {i \in 1..Len(history) : history[i].action = "call"}

\* the polls that were not answered with "No change"
ChangePolls == {i \in 1..Len(history) : history[i].action # "no_change"}

\* the status of the poll before poll i, unknown before the first
StatusBefore(i) == IF i = 1 THEN "None" ELSE history[i - 1].current

\* a call was attempted in a handle_status_change that then did not return
CallInAbortedPoll ==
    IF exc.during = "handle_status_change" /\ call_result # "none" THEN 1 ELSE 0

\* C1: over the polls handle_status_change has answered, starting from the
\* unknown status, a call is placed on a poll exactly when that poll is
\* in_stock and the poll before it (if any) was not; and calls.create has
\* been invoked once per such poll and never otherwise.
C1_CallIffEnteringInStock ==
    /\ \A i \in 1..Len(history) :
          (i \in CallPolls) <=>
              (history[i].current = "in_stock" /\ StatusBefore(i) # "in_stock")
    /\ \A i \in 1..Len(history) : history[i].last = StatusBefore(i)
    /\ calls = Cardinality(CallPolls) + CallInAbortedPoll

\* in_stock twice in a row gave one call, and in_stock again after
\* sold_out gave a second
C1_Witness ==
    /\ Fed = <<"in_stock", "in_stock", "sold_out", "in_stock">>
    /\ CallPolls = {1, 4}
    /\ calls = 2

\* C2: when calls.create raised on a poll that entered in_stock,
\* handle_status_change still returns, and the recorded last status is
\* in_stock (so a following in_stock poll is "No change", with no call).
C2_FailedCallKeepsStatus ==
    call_result = "error" =>
        /\ exc.during # "handle_status_change"
        /\ last_status = "in_stock"

\* C3: when requests.get raised, check_status returns "fail"; the failure
\* does not leave check_status as an exception.
C3_FetchFailureIsFail ==
    response.kind = "error" =>
        /\ exc.during # "check_status"
        /\ pc \in {"m_handle", "i_handle"} => current_status = "fail"

\* the steps of a poll cycle
PollSteps == {"check_status", "handle_status_change", "monitor", "interactive"}

\* C4: no failed append to the daily log and no failed read or write of
\* state_changes.json ends the process during a poll cycle.
C4_PersistenceFailureDoesNotAbort ==
    ~ ( /\ pc = "crashed"
        /\ exc.in \in {"log_message", "log_state_change"}
        /\ exc.during \in PollSteps )

\* C5: whatever CHECK_URL is (unset, without skuId=<digits>, with it),
\* extracting the SKU does not end the process, and once start-up is over the
\* SKU is the digits of the URL, or else the placeholder with the warning
\* emitted; the marker is built from it.
C5_StartupSurvivesAnyUrl ==
    /\ exc.in # "extract_sku"
    /\ pc \notin {"import", "crashed"} =>
          /\ ADD_TO_CART_MARKER = Marker(SKU)
          /\ IF CHECK_URL # None /\ \E i \in 1..Len(CHECK_URL) : MatchesAt(CHECK_URL, i)
             THEN SKU = extract_sku(CHECK_URL) /\ ~warned
             ELSE SKU = FALLBACK_SKU /\ warned

\* check_status has just returned from a fetch in which nothing raised
FetchedCleanly ==
    /\ pc \in {"m_handle", "i_handle"}
    /\ response.kind = "ok"
    /\ (log = <<>> \/ log[Len(log)] # "error_fetching")

HasSoldOut == Contains(SOLD_OUT_TEXT, response.text)

HasAddToCart == Contains(ADD_TO_CART_MARKER, response.text)

\* C6: the status of a fetched page is decided by two facts alone: sold_out
\* when the sold-out text is there (with or without the add-to-cart marker),
\* in_stock when only the add-to-cart marker is, fail when neither is.
C6_ClassificationTable ==
    FetchedCleanly =>
        /\ HasSoldOut => current_status = "sold_out"
        /\ (~HasSoldOut /\ HasAddToCart) => current_status = "in_stock"
        /\ (~HasSoldOut /\ ~HasAddToCart) => current_status = "fail"

\* a page with both markers was fetched and classified sold_out
C6_Witness ==
    /\ FetchedCleanly
    /\ HasSoldOut
    /\ HasAddToCart
    /\ current_status = "sold_out"

C7_Sequence == <<"sold_out", "in_stock", "in_stock", "sold_out", "in_stock">>

\* C7 as claimed: the sequence sold_out, in_stock, in_stock, sold_out,
\* in_stock from the unknown status gives exactly 3 polls that are not
\* "No change", and calls at polls 2 and 5 only.
C7_ThreeChanges ==
    Fed = C7_Sequence =>
        /\ Cardinality(ChangePolls) = 3
        /\ CallPolls = {2, 5}

\* C7 as amended: the same sequence gives exactly 4 polls that are not
\* "No change" (polls 1, 2, 4 and 5: the first poll differs from the unknown
\* status), and calls at polls 2 and 5 only.
C7_FourChanges ==
    Fed = C7_Sequence =>
        /\ ChangePolls = {1, 2, 4, 5}
        /\ CallPolls = {2, 5}
        /\ calls = 2

\* the whole sequence has been fed through handle_status_change
C7_Witness ==
    /\ Fed = C7_Sequence
    /\ pc = "i_input"
    /\ last_status = "in_stock"

\* C8: the wait computed in a cycle is 60 exactly when the Pacific weekday is
\* Monday to Friday and the Pacific hour is 6 to 13, and 600 otherwise.
C8_WaitSchedule ==
    pc = "m_sleep" =>
        /\ now_pt.weekday \in 0..6
        /\ now_pt.hour \in 0..23
        /\ wait_time_seconds \in {60, 600}
        /\ wait_time_seconds = 60 <=>
              (now_pt.weekday \in 0..4 /\ now_pt.hour \in 6..13)

\* Friday 14:00 Pacific gives 600
C8_Witness ==
    /\ pc = "m_sleep"
    /\ now_pt = [weekday |-> 4, hour |-> 14]
    /\ wait_time_seconds = 600

\* the snapshot with the earliest timestamp among those written so far
OldestSnapshot ==
    CHOOSE f \in files \cup removed : \A g \in files \cup removed : f[1] <= g[1]

QueuedFiles == {saved_files_queue[i] : i \in 1..Len(saved_files_queue)}

\* C9: after MAX_SAVED_RESPONSES + 1 snapshot-saving fetches, the oldest
\* snapshot has left the rotation and os.remove has been called on it, and on
\* no other.
C9_OldestEvictedAndDeleted ==
    (pc = "i_handle" /\ nfetch = MAX_SAVED_RESPONSES + 1) =>
        /\ OldestSnapshot \notin QueuedFiles
        /\ removed = {OldestSnapshot}

\* C10: every log_state_change call that returns leaves in
\* state_changes.json the list that was stored before with one event added.
C10_AppendOnly ==
    [][ (state_changes' # state_changes /\ pc' # "crashed") =>
            /\ state_changes'.valid
            /\ Len(state_changes'.events) = Len(state_changes.events) + 1
            /\ SubSeq(state_changes'.events, 1, Len(state_changes.events))
                  = state_changes.events ]_vars

-----------------------------------------------------------------------------
(* Transition events *)

\* this step is a handle_status_change call that returns
HandleReturns == Len(history') = Len(history) + 1

\* the last element of state_changes.json is the event of the poll in hand
EventOfThisPollWritten ==
    /\ state_changes'.exists /\ state_changes'.valid
    /\ state_changes'.events # <<>>
    /\ state_changes'.events[Len(state_changes'.events)] =
           [timestamp |-> clock', old_status |-> last_status,
            new_status |-> current_status]
    /\ Len(state_changes'.events) \in {Len(state_changes.events) + 1, 1}

\* C11 as stated: every handle_status_change call that returns, whether or
\* not the status changed, has appended one transition event to
\* state_changes.json
C11_EventPerPoll == [][HandleReturns => EventOfThisPollWritten]_vars

\* C11 as the code has it: a handle_status_change call that returns has
\* appended one transition event to state_changes.json when the polled status
\* differs from last_status, and has left the file as it was when it does not
C11_EventPerChange ==
    [][HandleReturns =>
          IF current_status # last_status
          THEN EventOfThisPollWritten
          ELSE state_changes' = state_changes]_vars

\* a run with a poll that changed the status followed by one that did not,
\* the file holding the one event of the first
C11_Witness ==
    /\ Len(history) = 2
    /\ history[1].action # "no_change"
    /\ history[2].action = "no_change"
    /\ state_changes.valid
    /\ Len(state_changes.events) = 1
    /\ state_changes.events[1].new_status = last_status

-----------------------------------------------------------------------------
(* The interactive prompt *)

ForceCommands == {<<"s">>, <<"i">>, <<"f">>}
Recognized == ForceCommands \cup {<<>>, <<"q">>}

\* this step reads a line at the prompt that is none of s, i, f, empty, q
UnrecognizedEntered == pc = "i_input" /\ user_input' \notin Recognized

\* C12: an input that after strip/lowercase is none of s, i, f, empty or q
\* is rejected and the prompt comes back, with last_status, the snapshot
\* queue and files and state_changes.json unchanged and no fetch and no call
C12_UnrecognizedInputRejected ==
    [][UnrecognizedEntered =>
          /\ pc' = "i_input"
          /\ UNCHANGED <<last_status, saved_files_queue, files, state_changes,
                         nfetch, calls>>]_vars

\* the action the table of lines 219-233 gives for a status and the status
\* before it
TableAction(current, last) ==
    IF current = last THEN "no_change"
    ELSE CASE current = "in_stock" -> "call"
           [] current = "sold_out" -> "log_sold_out"
           [] current = "fail" -> "log_anomaly"

\* C13: a forced-status command goes to handle_status_change without a fetch
\* or a snapshot, with the status its letter names; and a
\* handle_status_change call that returns takes the action and leaves the
\* last_status that its status and the status before it determine, the same
\* for a forced status as for a fetched one
C13_ForcedLikeFetched ==
    [][/\ (pc = "i_input" /\ user_input' \in ForceCommands) =>
              /\ pc' = "i_handle"
              /\ current_status' = (CASE user_input' = <<"s">> -> "sold_out"
                                      [] user_input' = <<"i">> -> "in_stock"
                                      [] user_input' = <<"f">> -> "fail")
              /\ response' = NoResponse
              /\ UNCHANGED <<nfetch, files, saved_files_queue, last_status>>
       /\ (pc = "i_handle" /\ user_input \in ForceCommands) =>
              UNCHANGED <<nfetch, files, saved_files_queue>>
       /\ (pc = "i_handle" /\ HandleReturns) =>
              LET r == history'[Len(history')]
              IN  /\ r.fetched = (user_input = <<>>)
                  /\ r.action = TableAction(current_status, last_status)
                  /\ last_status' = current_status]_vars

\* a fetched sold_out followed by a forced in_stock that placed the call
C13_Witness ==
    /\ Len(history) = 2
    /\ history[1].fetched /\ history[1].current = "sold_out"
    /\ ~history[2].fetched /\ history[2].action = "call"
    /\ user_input = <<"i">>
    /\ calls = 1 /\ nfetch = 1
    /\ last_status = "in_stock"

\* C14: the loop is left for Quit exactly when q is entered, q changes
\* neither last_status nor the number of fetches and calls, nothing runs
\* after Quit, and every other command is carried through and returns to the
\* prompt
C14_QuitExactlyOnQ ==
    [][/\ pc # "exit"
       /\ pc \in {"i_input", "i_check", "i_handle"} =>
              /\ pc' = "exit" <=> (pc = "i_input" /\ user_input' = <<"q">>)
              /\ pc' = "exit" => UNCHANGED <<last_status, nfetch, calls>>
              /\ pc' # "crashed"
       /\ pc = "i_check" => pc' = "i_handle"
       /\ pc = "i_handle" => pc' = "i_input"]_vars

-----------------------------------------------------------------------------
(* The monitor_mode cycle *)

\* C15: a monitor_mode cycle runs check_status, then handle_status_change,
\* then the wait computation, then the sleep, and only then the next
\* check_status: every fetch but the first comes after exactly one sleep of
\* 60 or 600 seconds since the fetch before it, whatever that fetch returned
C15_OneSleepBetweenFetches ==
    [][/\ pc = "m_check" =>
              /\ nfetch' = nfetch + 1
              /\ nsleep = nfetch
              /\ nfetch > 0 => slept \in {60, 600}
              /\ pc' \in {"m_handle", "crashed"}
       /\ pc = "m_handle" =>
              /\ UNCHANGED <<nfetch, nsleep, slept>>
              /\ pc' \in {"m_wait", "crashed"}
       /\ pc = "m_wait" =>
              /\ UNCHANGED <<nfetch, nsleep, slept>>
              /\ pc' \in {"m_sleep", "crashed"}
       /\ pc = "m_sleep" =>
              /\ nsleep' = nsleep + 1
              /\ nfetch' = nfetch
              /\ nsleep' = nfetch
              /\ slept' \in {60, 600}
              /\ pc' = "m_check"]_vars

\* the second fetch of a run whose first fetch gave fail, after one sleep
C15_Witness ==
    /\ pc = "m_handle"
    /\ nfetch = 2
    /\ nsleep = 1
    /\ slept \in {60, 600}
    /\ Len(history) = 1
    /\ history[1].current = "fail"

\* C16: the clock is read in every cycle, after the poll and the action of
\* that cycle, and the sleep of a cycle lasts what the schedule gives for
\* the reading of that cycle, whatever an earlier cycle slept
C16_WaitOfThisCycle ==
    [][/\ pc = "m_wait" =>
              /\ now_pt = NoTime
              /\ Len(history) = nsleep + 1
              /\ nfetch = nsleep + 1
              /\ now_pt' # NoTime
       /\ pc = "m_sleep" =>
              /\ now_pt # NoTime
              /\ slept' = (IF now_pt.weekday \in 0..4 /\ now_pt.hour \in 6..13
                           THEN 60 ELSE 600)
              /\ now_pt' = NoTime]_vars

\* a second cycle about to sleep 60 seconds after a first that slept 600
C16_Witness ==
    /\ pc = "m_sleep"
    /\ nsleep = 1
    /\ slept = 600
    /\ now_pt = [weekday |-> 4, hour |-> 6]
    /\ wait_time_seconds = 60

-----------------------------------------------------------------------------
(* Snapshots *)

\* C17: the snapshot files on disk are never more than MAX_SAVED_RESPONSES
\* and are exactly the files named in saved_files_queue
C17_SnapshotsBounded ==
    mode = "interactive" =>
        /\ Cardinality(files) <= MAX_SAVED_RESPONSES
        /\ files = QueuedFiles

\* the page of the response in hand, classified
ClassOfResponse == Classify(response.text, ADD_TO_CART_MARKER)

\* C18: when the fetch of a snapshot-saving check_status succeeded, the
\* status handed to handle_status_change is the classification of the page
\* text, whether or not the snapshot could be written
C18_SnapshotFailureKeepsStatus ==
    (pc = "i_handle" /\ response.kind = "ok") => current_status = ClassOfResponse

-----------------------------------------------------------------------------
(* The chain of transition events and last_status *)

\* the last element of state_changes.json
LastEvent == state_changes.events[Len(state_changes.events)]

\* the lines that report the action of a poll whose status changed
ActionLines == {"call_placed", "error_placing_call", "sold_out_update",
                "page_failed_alert"}

\* this step places the call or writes the line of a changed status
ActionPerformed ==
    \/ calls' = calls + 1
    \/ \E line \in ActionLines : log' = Append(log, line)

\* while the run is alive, last_status is None as long as no poll has been
\* handled, and afterwards it is the new_status of the event recorded last
LastStatusIsLastRecorded ==
    pc # "crashed" =>
        IF history = <<>>
        THEN last_status = "None"
        ELSE /\ state_changes.exists /\ state_changes.valid
             /\ state_changes.events # <<>>
             /\ LastEvent.new_status = last_status

\* C19: the events a run records form a chain: the event a poll records
\* has old_status = last_status, which is None for the first event of the
\* run and the new_status of the event recorded before it for every later
\* one; its new_status differs from its old_status; and the call or log line
\* of a changed status happens only in a poll that has recorded its event
C19_EventChain ==
    /\ []LastStatusIsLastRecorded
    /\ [][/\ (pc \in {"m_handle", "i_handle"} /\ state_changes' # state_changes
                 /\ state_changes'.valid) =>
                 /\ EventOfThisPollWritten
                 /\ state_changes'.events[Len(state_changes'.events)].old_status
                        # current_status
          /\ ActionPerformed => EventOfThisPollWritten]_vars

\* a run that has recorded None -> sold_out and then sold_out -> in_stock
\* and placed the call
C19_Witness ==
    /\ Len(history) = 2
    /\ Len(state_changes.events) >= 2
    /\ state_changes.events[Len(state_changes.events) - 1] =
           [timestamp |-> clock - 1, old_status |-> "None", new_status |-> "sold_out"]
    /\ LastEvent = [timestamp |-> clock, old_status |-> "sold_out",
                    new_status |-> "in_stock"]
    /\ calls = 1

\* C20: last_status is None until the first handle_status_change call
\* returns and from then on is the status of the last poll handled, one of
\* sold_out, in_stock, fail; it changes only in a handle_status_change call
\* that returns, and every such call leaves it equal to the status polled
C20_LastStatusIsPolledStatus ==
    /\ [](IF history = <<>>
          THEN last_status = "None"
          ELSE /\ last_status = history[Len(history)].current
               /\ last_status \in {"sold_out", "in_stock", "fail"})
    /\ [][/\ last_status' # last_status => HandleReturns
          /\ HandleReturns => last_status' = current_status]_vars

\* monitor mode after an in_stock poll followed by a failed one
C20_Witness ==
    /\ pc = "m_wait"
    /\ Len(history) = 2
    /\ history[1].current = "in_stock"
    /\ history[2].current = "fail"
    /\ last_status = "fail"

====
